---------------------------- MODULE Spec2Model ----------------------------
(* Model of zerousb's libusb backend (libusb.go): device discovery          *)
(* (getAllDevices), the handle lifecycle (open, Close) and the transfer     *)
(* dispatch (Read, Write), over a native USB layer that counts the calls    *)
(* the library makes to it.                                                 *)
EXTENDS Integers, Sequences, FiniteSets, TLC

(* ------------------------------ bounds -------------------------------- *)
\* library calls made in one behaviour
MaxCalls == 4
\* application threads calling into one process
NumThreads == 2
\* largest timeout value handed to a setter
MaxTimeout == 1
\* largest buffer length handed to Read / Write
MaxBufLen == 1
\* devices on the bus
NumDevices == 2
\* native calls that fail in one behaviour
MaxFaults == 1
\* devices plugged in or pulled out in one behaviour
MaxPlugEvents == 1
\* endpoints of the generated alt-setting of the discovery model
MaxEndpoints == 3
\* enumerations made in one behaviour of the discovery model
MaxDiscoveries == 1

(* ------------------------- program constants -------------------------- *)
ClassHID == 3
ClassVendorSpec == 255
TransferTypeControl == 0
TransferTypeIsochronous == 1
TransferTypeBulk == 2
TransferTypeInterrupt == 3
endpointDirectionMask == 128
transferTypeMask == 3
usageTypeMask == 48

\* Go's nil for the native pointers (device, device handle, ctx) and for the
\* *uint8 endpoint pointers of DeviceInfo.
Nil == 0
NilPtr == -1

(* ----------------------- the attached hardware ------------------------ *)
\* Descriptor trees the native layer reports.  An endpoint is
\* [bEndpointAddress, bmAttributes]; an interface is the sequence of its
\* alt-settings; a configuration is the sequence of its interfaces.
EP(addr, attr) == [bEndpointAddress |-> addr, bmAttributes |-> attr]

Alt(n, class, ends) ==
    [bAlternateSetting |-> n, bInterfaceClass |-> class, endpoint |-> ends]

Devices == 1..NumDevices

\* The devices of the lifecycle model.
StockDescriptor(dev) ==
    CASE dev = 1 ->
           \* interface 0 with two alt-settings (bulk+bulk, interrupt IN + bulk
           \* OUT) and interface 1 with an interrupt pair
           [idVendor |-> 1, idProduct |-> 1, bDeviceClass |-> 0, port |-> 1,
            configs |-> << << << Alt(0, ClassVendorSpec,
                                     <<EP(129, TransferTypeBulk), EP(1, TransferTypeBulk)>>),
                                 Alt(1, ClassVendorSpec,
                                     <<EP(130, TransferTypeInterrupt), EP(2, TransferTypeBulk)>>) >>,
                              << Alt(0, ClassVendorSpec,
                                     <<EP(131, TransferTypeInterrupt), EP(3, TransferTypeInterrupt)>>) >> >> >>]
      [] dev = 2 ->
           \* the same product on another port: config 0 holds a HID interface,
           \* config 1 an interface without alt-settings and a bulk pair
           [idVendor |-> 1, idProduct |-> 1, bDeviceClass |-> 0, port |-> 2,
            configs |-> << << << Alt(0, ClassHID,
                                     <<EP(129, TransferTypeInterrupt), EP(1, TransferTypeInterrupt)>>) >> >>,
                           << << >>,
                              << Alt(0, ClassVendorSpec,
                                     <<EP(129, TransferTypeBulk), EP(1, TransferTypeBulk)>>) >> >> >>]
      [] OTHER ->
           \* another vendor's device with an IN-only interface
           [idVendor |-> 2, idProduct |-> 1, bDeviceClass |-> 0, port |-> 1,
            configs |-> << << << Alt(0, ClassVendorSpec,
                                     <<EP(129, TransferTypeInterrupt),
                                       EP(4, TransferTypeIsochronous)>>) >> >> >>]

\* The descriptor trees of the discovery model: device 1 is of either vendor
\* and has no configuration, a configuration without interfaces, or one
\* configuration with one interface with one alt-setting, whose classes and
\* endpoints range over every combination below.  The i-th endpoint of the
\* alt-setting has endpoint number i, so the addresses of an alt-setting are
\* distinct.
ProbeDirections == {0, endpointDirectionMask}
\* the attribute byte of an interrupt endpoint with a usage type in bits 4-5
\* (0x13, a USB 3 notification endpoint)
InterruptNotification == TransferTypeInterrupt + 16

ProbeAttributes ==
    {TransferTypeIsochronous, TransferTypeBulk, TransferTypeInterrupt, InterruptNotification}
ProbeClasses == {0, ClassHID}
ProbeVendors == {1, 2}
ProbeEndpoints == ProbeDirections \X ProbeAttributes

SeqsUpTo(S, n) == UNION {[1..k -> S] : k \in 0..n}

ProbeEnds(ks) == [i \in 1..Len(ks) |-> EP(ks[i][1] + i, ks[i][2])]

ProbeConfigs ==
    {<<>>, << <<>> >>}
    \cup {<< << << Alt(0, ic, ProbeEnds(ks)) >> >> >> :
             ic \in ProbeClasses, ks \in SeqsUpTo(ProbeEndpoints, MaxEndpoints)}

ProbeDescriptors ==
    {[idVendor |-> v, idProduct |-> 1, bDeviceClass |-> dc, port |-> 1, configs |-> cs] :
        v \in ProbeVendors, dc \in ProbeClasses, cs \in ProbeConfigs}

\* (vendorID, productID) filters a caller passes; 0 matches anything
Filters == {<<0, 0>>, <<1, 1>>}

\* the filters of the discovery model: each of the two is absent, equal to
\* and different from what an attached device reports
ProbeFilters == Filters \cup {<<2, 0>>, <<0, 2>>}

(* ------------------------------- state -------------------------------- *)
VARIABLES
    usb,        \* per device: the descriptor tree the native layer reports
    attached,   \* devices currently plugged in (the native device list)
    ctx,        \* C.ctx: Nil until libusb_init succeeded
    inits,      \* number of libusb_init calls that have succeeded
    mu,         \* the thread holding the mutex the callers of getAllDevices
                \* and open take around the call, 0 when it is free
    refs,       \* per device: libusb_ref_device calls minus libusb_unref_device
                \* calls the library has issued so far
    infos,      \* the []DeviceInfo the caller got from its last enumeration
    handles,    \* the *libusbDevice objects returned by open, in order
    native,     \* the native device handles libusb_open produced, in order
    pc,         \* per thread: idle, or inside a native transfer call
    alive,      \* FALSE once the process has died in the native layer
    ret,        \* what the last library call returned
    calls,      \* number of library calls made since the initial state
    faults,     \* number of native calls that have failed so far
    plugs       \* number of plug / unplug events so far

vars == <<usb, attached, ctx, inits, mu, refs, infos, handles, native, pc, alive, ret, calls, faults, plugs>>

Threads == 1..NumThreads

(* ------------------------ discovery: getAllDevices -------------------- *)
\* bEndpointAddress & LIBUSB_ENDPOINT_IN == LIBUSB_ENDPOINT_IN
IsEndpointIn(addr) == (addr \div endpointDirectionMask) % 2 = 1

\* the test that lets an endpoint through: the whole attribute byte is compared
IsCandidateEndpoint(end) ==
    ~(end.bmAttributes # TransferTypeInterrupt /\ end.bmAttributes # TransferTypeBulk)

NoEndpoints ==
    [reader |-> NilPtr, writer |-> NilPtr, readerTransferType |-> 0, writerTransferType |-> 0]

\* a mutant of ScanEnd: the first endpoint of a direction is kept
ScanEndFirstWins(end, acc) ==
    IF ~IsCandidateEndpoint(end) THEN acc
    ELSE IF IsEndpointIn(end.bEndpointAddress)
         THEN IF acc.reader # NilPtr THEN acc
              ELSE [acc EXCEPT !.reader = end.bEndpointAddress,
                               !.readerTransferType = end.bmAttributes]
         ELSE IF acc.writer # NilPtr THEN acc
              ELSE [acc EXCEPT !.writer = end.bEndpointAddress,
                               !.writerTransferType = end.bmAttributes]

\* the body of "for _, end := range ends"
ScanEnd(end, acc) ==
    IF ~IsCandidateEndpoint(end) THEN acc
    ELSE IF IsEndpointIn(end.bEndpointAddress)
         THEN [acc EXCEPT !.reader = end.bEndpointAddress,
                          !.readerTransferType = end.bmAttributes]
         ELSE [acc EXCEPT !.writer = end.bEndpointAddress,
                          !.writerTransferType = end.bmAttributes]

\* the loop over the endpoints of one alt-setting
RECURSIVE ScanEnds(_, _)
ScanEnds(ends, acc) ==
    IF ends = <<>> THEN acc
    ELSE ScanEnds(Tail(ends), ScanEnd(Head(ends), acc))

\* a mutant of Emits: one direction is enough
EmitsEitherDirection(acc) == acc.reader # NilPtr \/ acc.writer # NilPtr

\* "if reader != nil && writer != nil"
Emits(acc) == acc.reader # NilPtr /\ acc.writer # NilPtr

\* fmt.Sprintf("%04x:%04x:%02d", vendorID, uint16(desc.idProduct), port): the
\* three numbers that are formatted, the first one being the filter argument
PathOf(vendorID, idProduct, port) == <<vendorID, idProduct, port>>

MakeInfo(dev, desc, ifacenum, alt, acc, vendorID) ==
    [Path               |-> PathOf(vendorID, desc.idProduct, desc.port),
     VendorID           |-> desc.idVendor,
     ProductID          |-> desc.idProduct,
     Class              |-> desc.bDeviceClass,
     Interface          |-> ifacenum,
     libusbDevice       |-> dev,
     libusbPort         |-> desc.port,
     libusbReader       |-> acc.reader,
     libusbWriter       |-> acc.writer,
     readerTransferType |-> acc.readerTransferType,
     writerTransferType |-> acc.writerTransferType,
     InterfaceAlternate |-> alt.bAlternateSetting,
     InterfaceClass     |-> alt.bInterfaceClass]

\* a mutant of ScanAlt: HID interfaces are scanned like any other
ScanAltAnyClass(dev, desc, ifacenum, alt, vendorID) ==
    LET acc == ScanEnds(alt.endpoint, NoEndpoints) IN
    IF Emits(acc) THEN << MakeInfo(dev, desc, ifacenum, alt, acc, vendorID) >>
    ELSE <<>>

\* the body of "for _, alt := range alts"
ScanAlt(dev, desc, ifacenum, alt, vendorID) ==
    IF alt.bInterfaceClass = ClassHID THEN <<>>
    ELSE LET acc == ScanEnds(alt.endpoint, NoEndpoints) IN
         IF Emits(acc) THEN << MakeInfo(dev, desc, ifacenum, alt, acc, vendorID) >>
         ELSE <<>>

RECURSIVE ScanAlts(_, _, _, _, _)
ScanAlts(dev, desc, ifacenum, alts, vendorID) ==
    IF alts = <<>> THEN <<>>
    ELSE ScanAlt(dev, desc, ifacenum, Head(alts), vendorID)
         \o ScanAlts(dev, desc, ifacenum, Tail(alts), vendorID)

\* "for ifacenum, iface := range ifaces"; ifacenum counts from 0
RECURSIVE ScanIfaces(_, _, _, _, _)
ScanIfaces(dev, desc, ifaces, ifacenum, vendorID) ==
    IF ifacenum >= Len(ifaces) THEN <<>>
    ELSE ScanAlts(dev, desc, ifacenum, ifaces[ifacenum + 1], vendorID)
         \o ScanIfaces(dev, desc, ifaces, ifacenum + 1, vendorID)

\* A native failure chosen for one call of getAllDevices: none, libusb_init,
\* libusb_get_device_list, the device descriptor of list entry devnum, or
\* configuration cfgnum of list entry devnum.
NoFault == [kind |-> "none", devnum |-> 0, cfgnum |-> 0]
ScanFaults ==
    {NoFault}
    \cup {[kind |-> k, devnum |-> 0, cfgnum |-> 0] : k \in {"init", "list"}}
    \cup {[kind |-> "desc", devnum |-> n, cfgnum |-> 0] : n \in 0..(NumDevices - 1)}
    \cup {[kind |-> "cfg", devnum |-> n, cfgnum |-> 0] : n \in 0..(NumDevices - 1)}

\* "for cfgnum := 0; cfgnum < bNumConfigurations; cfgnum++"
RECURSIVE ScanConfigs(_, _, _, _, _, _)
ScanConfigs(dev, desc, devnum, cfgnum, vendorID, fault) ==
    IF cfgnum >= Len(desc.configs) THEN [infos |-> <<>>, err |-> "nil"]
    ELSE IF fault.kind = "cfg" /\ fault.devnum = devnum /\ fault.cfgnum = cfgnum
         THEN [infos |-> <<>>, err |-> "config descriptor"]
         ELSE LET here == ScanIfaces(dev, desc, desc.configs[cfgnum + 1], 0, vendorID)
                  rest == ScanConfigs(dev, desc, devnum, cfgnum + 1, vendorID, fault)
              IN  [infos |-> here \o rest.infos, err |-> rest.err]

\* a mutant of Filtered: the product filter is ignored
FilteredByVendor(desc, vendorID, productID) == vendorID > 0 /\ desc.idVendor # vendorID

\* the vendor / product filter
Filtered(desc, vendorID, productID) ==
    (vendorID > 0 /\ desc.idVendor # vendorID) \/ (productID > 0 /\ desc.idProduct # productID)

\* "for devnum, dev := range devices"; devnum counts from 0
RECURSIVE ScanDevices(_, _, _, _, _)
ScanDevices(devices, devnum, vendorID, productID, fault) ==
    IF devnum >= Len(devices) THEN [infos |-> <<>>, err |-> "nil"]
    ELSE LET dev  == devices[devnum + 1]
             desc == usb[dev]
         IN IF fault.kind = "desc" /\ fault.devnum = devnum
            THEN [infos |-> <<>>, err |-> "device descriptor"]
            ELSE IF Filtered(desc, vendorID, productID) \/ desc.bDeviceClass = ClassHID
                 THEN ScanDevices(devices, devnum + 1, vendorID, productID, fault)
                 ELSE LET here == ScanConfigs(dev, desc, devnum, 0, vendorID, fault) IN
                      IF here.err # "nil" THEN here
                      ELSE LET rest == ScanDevices(devices, devnum + 1, vendorID, productID, fault)
                           IN  [infos |-> here.infos \o rest.infos, err |-> rest.err]

\* the native device list: the attached devices in bus order
RECURSIVE DeviceListFrom(_, _)
DeviceListFrom(att, dev) ==
    IF dev > NumDevices THEN <<>>
    ELSE (IF dev \in att THEN <<dev>> ELSE <<>>) \o DeviceListFrom(att, dev + 1)

\* the devices of a sequence of records, one entry per record
DevicesOf(recs) == [i \in 1..Len(recs) |-> recs[i].libusbDevice]

\* a mutant of TrailingUnrefs: the matched devices keep their reference
TrailingUnrefsNone(recs) == <<>>

\* "for _, info := range infos { C.libusb_unref_device(...) }" before the
\* successful return
TrailingUnrefs(recs) == DevicesOf(recs)

\* a mutant of CtxIsNil: the context is initialized by every call
CtxIsNilAlways == TRUE

\* "if C.ctx == nil"
CtxIsNil == ctx = Nil

\* the device list pointer libusb_get_device_list stores on success
DeviceList == 1

\* "defer C.libusb_free_device_list(deviceList, 1)": the argument is evaluated
\* when the defer statement runs, before libusb_get_device_list has stored the
\* list, so the pointer the deferred call releases is nil whatever list is
\* obtained afterwards
DeferredFree(list) == Nil

\* One call of getAllDevices: the records and error it returns, the value of
\* C.ctx afterwards, the devices it called libusb_ref_device / _unref_device
\* on, the device list it obtained and the pointer it passed to
\* libusb_free_device_list when it returned.
getAllDevices(vendorID, productID, fault) ==
    IF CtxIsNil /\ fault.kind = "init"
    THEN [infos |-> <<>>, err |-> "init", ctx |-> Nil, refs |-> <<>>, unrefs |-> <<>>,
          list |-> Nil, freed |-> Nil]
    ELSE IF fault.kind = "list"
         THEN [infos |-> <<>>, err |-> "list", ctx |-> 1, refs |-> <<>>, unrefs |-> <<>>,
               list |-> Nil, freed |-> DeferredFree(Nil)]
         ELSE LET s == ScanDevices(DeviceListFrom(attached, 1), 0, vendorID, productID, fault)
              IN  [infos |-> s.infos, err |-> s.err, ctx |-> 1,
                   refs |-> DevicesOf(s.infos),
                   unrefs |-> IF s.err = "nil" THEN TrailingUnrefs(s.infos) ELSE <<>>,
                   list |-> DeviceList, freed |-> DeferredFree(DeviceList)]

\* number of entries of a sequence of devices equal to dev
Count(devs, dev) == Cardinality({i \in 1..Len(devs) : devs[i] = dev})

\* the reference balance after libusb_ref_device on each entry of devs
Ref(balance, devs) == [d \in Devices |-> balance[d] + Count(devs, d)]

\* the reference balance after libusb_unref_device on each entry of devs
Unref(balance, devs) == [d \in Devices |-> balance[d] - Count(devs, d)]

(* -------------------------- environment, calls ------------------------ *)
Idle == [state |-> "idle"]

\* the environment pulls device dev out, or plugs it in when it is out
Hotplug(dev) ==
    /\ plugs < MaxPlugEvents
    /\ attached' = IF dev \in attached THEN attached \ {dev} ELSE attached \cup {dev}
    /\ plugs' = plugs + 1
    /\ UNCHANGED <<usb, ctx, inits, mu, refs, infos, handles, native, pc, alive, ret, calls, faults>>

CanCall == alive /\ calls < MaxCalls

\* the number of failing native outcomes among errnos
Failing(errnos) == Cardinality({i \in 1..Len(errnos) : errnos[i] \notin {"nil", "none"}})

\* the native layer fails the calls whose outcomes are errnos
Fail(errnos) ==
    /\ faults + Failing(errnos) <= MaxFaults
    /\ faults' = faults + Failing(errnos)

\* the number of successful libusb_init calls after a call that leaves C.ctx = c
InitsAfter(c) == IF ctx = Nil /\ c # Nil THEN inits + 1 ELSE inits

\* one call getAllDevices(vendorID, productID) of a caller that keeps the result
EnumerateCall(vendorID, productID, fault) ==
    /\ CanCall
    /\ fault.kind = "init" => ctx = Nil
    /\ Fail(<<fault.kind>>)
    /\ LET r == getAllDevices(vendorID, productID, fault) IN
       /\ ctx' = r.ctx
       /\ inits' = InitsAfter(r.ctx)
       /\ refs' = Unref(Ref(refs, r.refs), r.unrefs)
       /\ infos' = r.infos
       /\ ret' = [op |-> "enumerate", err |-> r.err, vendorID |-> vendorID,
                  productID |-> productID, list |-> r.list, freed |-> r.freed]
    /\ calls' = calls + 1
    /\ UNCHANGED <<usb, attached, handles, native, alive, plugs>>

\* a caller enumerates, holding the callers' mutex for the whole call
Enumerate(vendorID, productID, fault) ==
    /\ mu = 0
    /\ EnumerateCall(vendorID, productID, fault)
    /\ UNCHANGED <<pc, mu>>

(* --------------------------- handle lifecycle ------------------------- *)
\* a mutant of Matches: the interface index is not compared
MatchesPortOnly(match, info) == match.libusbPort = info.libusbPort

\* "*match.libusbPort == *info.libusbPort && match.Interface == info.Interface"
Matches(match, info) ==
    match.libusbPort = info.libusbPort /\ match.Interface = info.Interface

\* the selection loop of open: the device kept, the index of its record in
\* matches and the devices libusb_unref_device was called on
RECURSIVE SelectFrom(_, _, _, _)
SelectFrom(matches, i, info, acc) ==
    IF i > Len(matches) THEN acc
    ELSE SelectFrom(matches, i + 1, info,
            IF acc.device = Nil /\ Matches(matches[i], info)
            THEN [acc EXCEPT !.device = matches[i].libusbDevice, !.sel = i]
            ELSE [acc EXCEPT !.unrefs = Append(@, matches[i].libusbDevice)])

Select(matches, info) ==
    SelectFrom(matches, 1, info, [device |-> Nil, sel |-> 0, unrefs |-> <<>>])

\* outcomes of the native calls open makes
OpenErrnos == {"nil", "ErrAccess"}
DetachErrnos == {"nil", "ErrNotSupported", "ErrNotFound", "ErrAccess"}
ClaimErrnos == {"nil", "ErrBusy"}

\* the error SetAutoDetach returns for the native outcome errno
SetAutoDetach(errno) ==
    IF errno # "nil" /\ errno # "ErrNotSupported" THEN errno ELSE "nil"

\* the error DetachKernelDriver returns for the native outcome errno
DetachKernelDriver(errno) ==
    IF errno # "nil" /\ errno # "ErrNotSupported" /\ errno # "ErrNotFound" THEN errno ELSE "nil"

\* the native handle libusb_open produces on device dev
NewNativeHandle(dev) ==
    [dev |-> dev, open |-> TRUE, claimed |-> FALSE, closeCalls |-> 0, releaseCalls |-> 0]

\* a mutant of ClaimFailed: the handle is left open
ClaimFailedLeaks(nh) == nh

\* the claim-failure path of open: C.libusb_close(handle)
ClaimFailed(nh) == [nh EXCEPT !.open = FALSE, !.closeCalls = @ + 1]

\* the *libusbDevice open returns
NewDevice(info, device, handle) ==
    [DeviceInfo   |-> [info EXCEPT !.libusbDevice = device],
     handle       |-> handle,
     lock         |-> 0,
     writeTimeout |-> 0,
     readTimeout  |-> 0,
     opened       |-> handle]

\* A caller opens one of the records it holds: open(info).  The results of
\* SetAutoDetach(1) and of DetachKernelDriver() are discarded by open; the
\* latter is kept in ret.detach.
OpenCall(info, fault, openErrno, detachErrno, claimErrno) ==
    /\ CanCall
    \* a native call that is not reached has no outcome to choose
    /\ fault.kind = "init" => ctx = Nil
    /\ fault.kind # "none" => openErrno = "nil"
    /\ openErrno # "nil" => detachErrno = "nil" /\ claimErrno = "nil"
    /\ Fail(<<fault.kind, openErrno, detachErrno, claimErrno>>)
    /\ calls' = calls + 1
    /\ LET r      == getAllDevices(info.VendorID, info.ProductID, fault)
           s      == Select(r.infos, info)
           nh     == Len(native) + 1
           detach == DetachKernelDriver(detachErrno)
           base   == [op |-> "open", err |-> "nil", info |-> info, matches |-> r.infos, sel |-> 0,
                      handle |-> Nil, h |-> 0, detach |-> "nil", claimCalled |-> FALSE,
                      list |-> r.list, freed |-> r.freed]
       IN
       /\ ctx' = r.ctx
       /\ inits' = InitsAfter(r.ctx)
       /\ IF r.err # "nil"
          THEN \* the re-scan failed: release what it returned
               /\ refs' = Unref(Unref(Ref(refs, r.refs), r.unrefs), DevicesOf(r.infos))
               /\ ret' = [base EXCEPT !.err = r.err]
               /\ UNCHANGED <<handles, native>>
          ELSE
          /\ refs' = Unref(Unref(Ref(refs, r.refs), r.unrefs), s.unrefs)
          /\ IF s.device = Nil
             THEN /\ ret' = [base EXCEPT !.err = "not found"]
                  /\ UNCHANGED <<handles, native>>
             ELSE IF openErrno # "nil"
             THEN /\ ret' = [base EXCEPT !.err = "open", !.sel = s.sel]
                  /\ UNCHANGED <<handles, native>>
             ELSE IF claimErrno # "nil"
             THEN /\ native' = Append(native, ClaimFailed(NewNativeHandle(s.device)))
                  /\ ret' = [base EXCEPT !.err = "claim", !.sel = s.sel, !.handle = nh,
                                         !.detach = detach, !.claimCalled = TRUE]
                  /\ UNCHANGED handles
             ELSE /\ native' = Append(native, [NewNativeHandle(s.device) EXCEPT !.claimed = TRUE])
                  /\ handles' = Append(handles, NewDevice(info, s.device, nh))
                  /\ ret' = [base EXCEPT !.err = "nil", !.sel = s.sel, !.handle = nh,
                                         !.h = Len(handles) + 1,
                                         !.detach = detach, !.claimCalled = TRUE]
    /\ UNCHANGED <<usb, attached, infos, alive, plugs>>

\* a caller opens a record, holding the callers' mutex for the whole call
Open(info, fault, openErrno, detachErrno, claimErrno) ==
    /\ mu = 0
    /\ OpenCall(info, fault, openErrno, detachErrno, claimErrno)
    /\ UNCHANGED <<pc, mu>>

HandleIds == 1..Len(handles)

\* a mutant of HandleAfterClose: the pointer is not cleared
HandleAfterCloseKept(dev) == dev.handle

\* "dev.handle = nil"
HandleAfterClose(dev) == Nil

\* the native handle after libusb_release_interface and libusb_close
Closed(nh) ==
    [nh EXCEPT !.open = FALSE, !.claimed = FALSE,
               !.closeCalls = @ + 1, !.releaseCalls = @ + 1]

\* a mutant of LockFree: the lock is never waited for
LockFreeAlways(h) == TRUE

\* "dev.lock.Lock()" returns at once: no thread holds the lock of handle h
LockFree(h) == handles[h].lock = 0

\* thread t calls Close on handle object h; the call takes the handle's lock,
\* so it starts only while the lock is free, and returns it
Close(t, h) ==
    /\ CanCall
    /\ pc[t] = Idle
    /\ LockFree(h)
    /\ calls' = calls + 1
    /\ LET dev == handles[h] IN
       /\ IF dev.handle # Nil
          THEN /\ native' = [native EXCEPT ![dev.handle] = Closed(@)]
               /\ handles' = [handles EXCEPT ![h].handle = HandleAfterClose(dev)]
          ELSE UNCHANGED <<native, handles>>
       /\ refs' = Unref(refs, <<dev.DeviceInfo.libusbDevice>>)
       /\ ret' = [op |-> "close", h |-> h, err |-> "nil", handle |-> dev.handle]
    /\ UNCHANGED <<usb, attached, ctx, inits, mu, infos, pc, alive, faults, plugs>>

\* SetWriteTimeout / SetReadTimeout: a plain store, without the lock
SetWriteTimeout(t, h, timeout) ==
    /\ CanCall
    /\ pc[t] = Idle
    /\ calls' = calls + 1
    /\ handles' = [handles EXCEPT ![h].writeTimeout = timeout]
    /\ ret' = [op |-> "SetWriteTimeout", h |-> h, timeout |-> timeout]
    /\ UNCHANGED <<usb, attached, ctx, inits, mu, refs, infos, native, pc, alive, faults, plugs>>

SetReadTimeout(t, h, timeout) ==
    /\ CanCall
    /\ pc[t] = Idle
    /\ calls' = calls + 1
    /\ handles' = [handles EXCEPT ![h].readTimeout = timeout]
    /\ ret' = [op |-> "SetReadTimeout", h |-> h, timeout |-> timeout]
    /\ UNCHANGED <<usb, attached, ctx, inits, mu, refs, infos, native, pc, alive, faults, plugs>>

(* --------------------------- transfer dispatch ------------------------ *)
\* the native call Write / Read dispatch to for a recorded transfer type
\* a mutant of NativeCall: the two transfer functions are exchanged
NativeCallExchanged(transferType) ==
    CASE transferType = TransferTypeInterrupt -> "libusb_bulk_transfer"
      [] transferType = TransferTypeBulk -> "libusb_interrupt_transfer"
      [] OTHER -> "none"

NativeCall(transferType) ==
    CASE transferType = TransferTypeInterrupt -> "libusb_interrupt_transfer"
      [] transferType = TransferTypeBulk -> "libusb_bulk_transfer"
      [] OTHER -> "none"

\* a mutant of TimeoutFor: both directions use the read timeout
TimeoutForReadOnly(dev, op) == dev.readTimeout

\* "timeout := dev.writeTimeout" in Write, "timeout := dev.readTimeout" in Read
TimeoutFor(dev, op) == IF op = "write" THEN dev.writeTimeout ELSE dev.readTimeout

\* the recorded transfer type Write / Read switch on
TransferTypeFor(dev, op) ==
    IF op = "write" THEN dev.DeviceInfo.writerTransferType
                    ELSE dev.DeviceInfo.readerTransferType

\* the endpoint address the transfer functions pass to the native call
EndpointFor(dev, op) ==
    IF op = "write" THEN dev.DeviceInfo.libusbWriter ELSE dev.DeviceInfo.libusbReader

\* Thread t enters Write (op = "write") or Read (op = "read") on handle object h
\* with a buffer of n bytes: it takes the lock, reads the timeout and, unless
\* the transfer type is unsupported or &b[0] panics on an empty buffer, is
\* inside the native transfer call when the step ends.
BeginTransfer(t, h, op, n) ==
    /\ CanCall
    /\ pc[t] = Idle
    /\ LockFree(h)
    /\ calls' = calls + 1
    /\ LET dev     == handles[h]
           timeout == TimeoutFor(dev, op)
           type    == TransferTypeFor(dev, op)
           end     == EndpointFor(dev, op)
       IN
       IF NativeCall(type) = "none"
       THEN /\ ret' = [op |-> op, h |-> h, err |-> "unsupported", n |-> 0, handle |-> dev.handle,
                       dispatched |-> FALSE, length |-> n]
            /\ UNCHANGED <<pc, handles>>
       ELSE IF n = 0
       THEN /\ ret' = [op |-> op, h |-> h, err |-> "panic", n |-> 0, handle |-> dev.handle,
                       dispatched |-> FALSE, length |-> n]
            /\ UNCHANGED <<pc, handles>>
       ELSE /\ pc' = [pc EXCEPT ![t] = [state |-> "transfer", h |-> h, op |-> op,
                                        call |-> NativeCall(type), handle |-> dev.handle,
                                        endpoint |-> end, length |-> n, timeout |-> timeout]]
            /\ handles' = [handles EXCEPT ![h].lock = t]
            /\ UNCHANGED ret
    /\ UNCHANGED <<usb, attached, ctx, inits, mu, refs, infos, native, alive, faults, plugs>>

\* What the native transfer call can do: with a null device handle it
\* dereferences the pointer, which the build may survive with an error or not
\* survive at all.
TransferOutcomes(handle) ==
    IF handle = Nil THEN {"crash", "ErrNoDevice"}
    ELSE {"nil", "ErrTimeout", "ErrIO"}

TransferErrnos == TransferOutcomes(Nil) \cup TransferOutcomes(1)

\* the native call of thread t returns; Write / Read return and unlock
EndTransfer(t, errno) ==
    /\ alive
    /\ pc[t].state = "transfer"
    /\ errno \in TransferOutcomes(pc[t].handle)
    /\ alive' = (errno # "crash")
    /\ ret' = [op |-> pc[t].op, h |-> pc[t].h, err |-> errno,
               n |-> IF errno = "nil" THEN pc[t].length ELSE 0,
               handle |-> pc[t].handle, dispatched |-> TRUE, length |-> pc[t].length]
    /\ handles' = [handles EXCEPT ![pc[t].h].lock = 0]
    /\ pc' = [pc EXCEPT ![t] = Idle]
    /\ UNCHANGED <<usb, attached, ctx, inits, mu, refs, infos, native, calls, faults, plugs>>

(* --------------------------- specifications --------------------------- *)
Init ==
    /\ usb = [d \in Devices |-> StockDescriptor(d)]
    /\ attached = Devices
    /\ ctx = Nil
    /\ inits = 0
    /\ mu = 0
    /\ refs = [d \in Devices |-> 0]
    /\ infos = <<>>
    /\ handles = <<>>
    /\ native = <<>>
    /\ pc = [t \in Threads |-> Idle]
    /\ alive = TRUE
    /\ ret = [op |-> "none"]
    /\ calls = 0
    /\ faults = 0
    /\ plugs = 0

Next ==
    \/ \E dev \in Devices : Hotplug(dev)
    \/ \E f \in Filters, fault \in ScanFaults : Enumerate(f[1], f[2], fault)
    \/ \E i \in 1..Len(infos), fault \in ScanFaults, o \in OpenErrnos,
          d \in DetachErrnos, c \in ClaimErrnos :
            Open(infos[i], fault, o, d, c)
    \/ \E t \in Threads, h \in HandleIds : Close(t, h)
    \/ \E t \in Threads, h \in HandleIds, v \in 0..MaxTimeout : SetWriteTimeout(t, h, v)
    \/ \E t \in Threads, h \in HandleIds, v \in 0..MaxTimeout : SetReadTimeout(t, h, v)
    \/ \E t \in Threads, h \in HandleIds, op \in {"read", "write"}, n \in 0..MaxBufLen :
            BeginTransfer(t, h, op, n)
    \/ \E t \in Threads, e \in TransferErrnos : EndTransfer(t, e)

Spec == Init /\ [][Next]_vars

\* The discovery model: device 1 reports any of the generated descriptor
\* trees, and callers only enumerate.
InitDiscovery ==
    /\ usb \in {[d \in Devices |-> IF d = 1 THEN p ELSE StockDescriptor(d)] : p \in ProbeDescriptors}
    /\ attached = Devices
    /\ ctx = Nil
    /\ inits = 0
    /\ mu = 0
    /\ refs = [d \in Devices |-> 0]
    /\ infos = <<>>
    /\ handles = <<>>
    /\ native = <<>>
    /\ pc = [t \in Threads |-> Idle]
    /\ alive = TRUE
    /\ ret = [op |-> "none"]
    /\ calls = 0
    /\ faults = 0
    /\ plugs = 0

Discover(vendorID, productID, fault) ==
    /\ calls < MaxDiscoveries
    /\ Enumerate(vendorID, productID, fault)

NextDiscovery ==
    \E f \in ProbeFilters, fault \in ScanFaults : Discover(f[1], f[2], fault)

SpecDiscovery == InitDiscovery /\ [][NextDiscovery]_vars

\* The initialization model: the threads enumerate and open concurrently, and
\* a call of getAllDevices is split at the test of C.ctx and at libusb_init.
\* The callers of getAllDevices and open are not part of the source; they are
\* modelled as the comment in getAllDevices describes them, taking a mutex
\* around the call.
LibraryCalls ==
    {[op |-> "enumerate", vendorID |-> f[1], productID |-> f[2]] : f \in Filters}
    \cup {[op |-> "open", info |-> infos[i]] : i \in 1..Len(infos)}

InitFault == [kind |-> "init", devnum |-> 0, cfgnum |-> 0]

\* the call a thread is in, run from the test of C.ctx (or from a failed
\* libusb_init) to its return
CallBody(call, fault, openErrno, detachErrno, claimErrno) ==
    IF call.op = "enumerate"
    THEN /\ openErrno = "nil" /\ detachErrno = "nil" /\ claimErrno = "nil"
         /\ EnumerateCall(call.vendorID, call.productID, fault)
    ELSE OpenCall(call.info, fault, openErrno, detachErrno, claimErrno)

\* thread t takes the callers' mutex and enters getAllDevices, directly or
\* through open
EnterCall(t, call) ==
    /\ CanCall
    /\ pc[t] = Idle
    /\ mu = 0
    /\ mu' = t
    /\ pc' = [pc EXCEPT ![t] = [state |-> "entered", call |-> call, inits |-> 0]]
    /\ UNCHANGED <<usb, attached, ctx, inits, refs, infos, handles, native, alive, ret, calls,
                   faults, plugs>>

\* "if C.ctx == nil"
CheckCtx(t) ==
    /\ pc[t].state = "entered"
    /\ pc' = [pc EXCEPT ![t].state = IF CtxIsNil THEN "init" ELSE "scan"]
    /\ UNCHANGED <<usb, attached, ctx, inits, mu, refs, infos, handles, native, alive, ret, calls,
                   faults, plugs>>

\* "C.libusb_init(&C.ctx)" with outcome errno: the context is stored, or the
\* call returns the error
InitCtx(t, errno) ==
    /\ pc[t].state = "init"
    /\ IF errno = "nil"
       THEN /\ ctx' = 1
            /\ inits' = inits + 1
            /\ pc' = [pc EXCEPT ![t].state = "scan", ![t].inits = @ + 1]
            /\ UNCHANGED <<usb, attached, mu, refs, infos, handles, native, alive, ret, calls,
                           faults, plugs>>
       ELSE /\ ctx = Nil
            /\ CallBody(pc[t].call, InitFault, "nil", "nil", "nil")
            /\ pc' = [pc EXCEPT ![t] = Idle]
            /\ mu' = 0

\* the rest of the call, from the device list to the return, after which the
\* caller releases the mutex
FinishCall(t, fault, openErrno, detachErrno, claimErrno) ==
    /\ pc[t].state = "scan"
    /\ fault.kind # "init"
    /\ CallBody(pc[t].call, fault, openErrno, detachErrno, claimErrno)
    /\ pc' = [pc EXCEPT ![t] = Idle]
    /\ mu' = 0

NextInit ==
    \/ \E t \in Threads, call \in LibraryCalls : EnterCall(t, call)
    \/ \E t \in Threads : CheckCtx(t)
    \/ \E t \in Threads, errno \in {"nil", "ErrOther"} : InitCtx(t, errno)
    \/ \E t \in Threads, fault \in ScanFaults, o \in OpenErrnos,
          d \in DetachErrnos, c \in ClaimErrnos :
            FinishCall(t, fault, o, d, c)

SpecInit == Init /\ [][NextInit]_vars

\* The transfer model: the callers have enumerated with (0, 0) and opened the
\* first record of device 1 and the first record of device 2, no native call
\* having failed; from there the threads close the two handles, set their
\* timeouts and read and write on them.
FirstOf(recs, dev) ==
    recs[CHOOSE i \in 1..Len(recs) :
            /\ recs[i].libusbDevice = dev
            /\ \A j \in 1..(i - 1) : recs[j].libusbDevice # dev]

InitIO ==
    /\ usb = [d \in Devices |-> StockDescriptor(d)]
    /\ attached = Devices
    /\ ctx = 1
    /\ inits = 1
    /\ mu = 0
    /\ infos = ScanDevices(DeviceListFrom(Devices, 1), 0, 0, 0, NoFault).infos
    /\ LET r1 == FirstOf(infos, 1)
           r2 == FirstOf(infos, 2)
           m1 == ScanDevices(DeviceListFrom(Devices, 1), 0, r1.VendorID, r1.ProductID, NoFault).infos
           m2 == ScanDevices(DeviceListFrom(Devices, 1), 0, r2.VendorID, r2.ProductID, NoFault).infos
           s1 == Select(m1, r1)
           s2 == Select(m2, r2)
       IN
       /\ refs = Unref(Unref([d \in Devices |-> 0], s1.unrefs), s2.unrefs)
       /\ handles = <<NewDevice(r1, s1.device, 1), NewDevice(r2, s2.device, 2)>>
       /\ native = <<[NewNativeHandle(s1.device) EXCEPT !.claimed = TRUE],
                     [NewNativeHandle(s2.device) EXCEPT !.claimed = TRUE]>>
       /\ ret = [op |-> "open", err |-> "nil", info |-> r2, matches |-> m2, sel |-> s2.sel,
                 handle |-> 2, h |-> 2, detach |-> "nil", claimCalled |-> TRUE,
                 list |-> DeviceList, freed |-> DeferredFree(DeviceList)]
    /\ pc = [t \in Threads |-> Idle]
    /\ alive = TRUE
    /\ calls = 0
    /\ faults = 0
    /\ plugs = 0

NextIO ==
    \/ \E t \in Threads, h \in HandleIds : Close(t, h)
    \/ \E t \in Threads, h \in HandleIds, timeout \in 0..MaxTimeout :
          SetWriteTimeout(t, h, timeout)
    \/ \E t \in Threads, h \in HandleIds, timeout \in 0..MaxTimeout :
          SetReadTimeout(t, h, timeout)
    \/ \E t \in Threads, h \in HandleIds, op \in {"read", "write"}, n \in 0..MaxBufLen :
          BeginTransfer(t, h, op, n)
    \/ \E t \in Threads, errno \in TransferErrnos : EndTransfer(t, errno)

SpecIO == InitIO /\ [][NextIO]_vars

\* The transfer model with native transfer calls that return: a thread inside
\* libusb_bulk_transfer / libusb_interrupt_transfer is not left there forever.
SpecIOFair ==
    SpecIO /\ \A t \in Threads : WF_vars(\E errno \in TransferErrnos : EndTransfer(t, errno))

\* The dispatch model: Write and Read as functions of the handle they are
\* called on.  The handle is the one open returns for the first record of
\* device 1, with each of the two recorded transfer types ranging over every
\* transfer type there is.
TransferTypes ==
    {TransferTypeControl, TransferTypeIsochronous, TransferTypeBulk, TransferTypeInterrupt}

InitDispatch ==
    /\ usb = [d \in Devices |-> StockDescriptor(d)]
    /\ attached = Devices
    /\ ctx = 1
    /\ inits = 1
    /\ mu = 0
    /\ infos = ScanDevices(DeviceListFrom(Devices, 1), 0, 0, 0, NoFault).infos
    /\ LET r1 == FirstOf(infos, 1)
           m1 == ScanDevices(DeviceListFrom(Devices, 1), 0, r1.VendorID, r1.ProductID, NoFault).infos
           s1 == Select(m1, r1)
       IN
       /\ refs = Unref([d \in Devices |-> 0], s1.unrefs)
       /\ handles \in {<<NewDevice([r1 EXCEPT !.readerTransferType = rt,
                                               !.writerTransferType = wt], s1.device, 1)>> :
                          rt \in TransferTypes, wt \in TransferTypes}
       /\ native = <<[NewNativeHandle(s1.device) EXCEPT !.claimed = TRUE]>>
    /\ ret = [op |-> "none"]
    /\ pc = [t \in Threads |-> Idle]
    /\ alive = TRUE
    /\ calls = 0
    /\ faults = 0
    /\ plugs = 0

NextDispatch ==
    \/ \E t \in Threads, h \in HandleIds, timeout \in 0..MaxTimeout :
          SetWriteTimeout(t, h, timeout)
    \/ \E t \in Threads, h \in HandleIds, timeout \in 0..MaxTimeout :
          SetReadTimeout(t, h, timeout)
    \/ \E t \in Threads, h \in HandleIds, op \in {"read", "write"}, n \in 0..MaxBufLen :
          BeginTransfer(t, h, op, n)
    \/ \E t \in Threads, errno \in TransferErrnos : EndTransfer(t, errno)

SpecDispatch == InitDispatch /\ [][NextDispatch]_vars

(* ------------------------------ properties ---------------------------- *)
\* a step that is one whole library call of operation op, from entry to return
Returns(op) == calls' = calls + 1 /\ pc' = pc /\ ret'.op = op

\* the number of records of recs that belong to device dev
Records(recs, dev) == Cardinality({i \in 1..Len(recs) : recs[i].libusbDevice = dev})

\* C1: an enumeration that returns N records leaves exactly N references
\* taken by the library outstanding, one per returned record, with or without
\* an error.
C1_ReferenceBalance ==
    [][Returns("enumerate") =>
          \A d \in Devices : refs'[d] - refs[d] = Records(infos', d)]_vars

\* C2: for every device, the library never issues more libusb_unref_device
\* calls than it has issued libusb_ref_device calls.
C2_NoReleaseWithoutRetain == \A d \in Devices : refs[d] >= 0

\* C3: however often Close is called on a handle, every call returns no
\* error, and the interface is released and the native handle closed exactly
\* once in total.
C3_CloseIdempotent ==
    /\ \A n \in 1..Len(native) : native[n].closeCalls <= 1 /\ native[n].releaseCalls <= 1
    /\ ret.op = "close" =>
          /\ ret.err = "nil"
          /\ handles[ret.h].handle = Nil
          /\ ~native[handles[ret.h].opened].open
          /\ native[handles[ret.h].opened].closeCalls = 1
          /\ native[handles[ret.h].opened].releaseCalls = 1

\* a Close call that found the handle already closed has returned
C3_SecondClose == ret.op = "close" /\ ret.handle = Nil

\* C4: a Close on an already closed handle releases no device reference.
C4_CloseUnrefsOnlyWhenOpen ==
    [][(Returns("close") /\ ret'.handle = Nil) => refs' = refs]_vars

\* C5: on a closed handle, Read and Write fail with a closed-handle error and
\* no native transfer call is dispatched with that handle.
C5_ClosedHandleRejects ==
    /\ \A t \in Threads : pc[t].state = "transfer" => pc[t].handle # Nil
    /\ (ret.op \in {"read", "write"} /\ ret.handle = Nil) =>
          (ret.err = "closed" /\ ~ret.dispatched)

Matching(matches, info) ==
    {i \in 1..Len(matches) : /\ matches[i].libusbPort = info.libusbPort
                             /\ matches[i].Interface = info.Interface}

\* C7: after a re-scan that succeeded, open fails with "not found" exactly
\* when no candidate has both the port number and the interface index of
\* info; otherwise it selects one candidate, which has both, and the handle it
\* returns is on that candidate's device.
C7_SelectByPortAndInterface ==
    (ret.op = "open" /\ ret.err \in {"nil", "not found", "open", "claim"}) =>
        LET M == Matching(ret.matches, ret.info) IN
        /\ (ret.err = "not found") <=> (M = {})
        /\ IF M = {} THEN ret.sel = 0 ELSE ret.sel \in M
        /\ ret.h # 0 =>
              handles[ret.h].DeviceInfo.libusbDevice = ret.matches[ret.sel].libusbDevice

\* open succeeded although several candidates and a candidate of another
\* interface on the same port were in the re-scan
C7_SeveralCandidates ==
    /\ ret.op = "open" /\ ret.err = "nil"
    /\ Cardinality(Matching(ret.matches, ret.info)) >= 2
    /\ \E i \in 1..Len(ret.matches) :
          /\ ret.matches[i].libusbPort = ret.info.libusbPort
          /\ ret.matches[i].Interface # ret.info.Interface

\* C8: from a successful open until Close, the device of the handle has at
\* least one outstanding reference taken by the library.
C8_HandleOwnsReference ==
    \A h \in HandleIds :
        handles[h].handle # Nil => refs[handles[h].DeviceInfo.libusbDevice] >= 1

\* C9: when the kernel-driver detach fails with anything but "not supported"
\* or "not found", open returns that error, claims nothing and returns no
\* handle.
C9_DetachFailureAborts ==
    (ret.op = "open" /\ ret.detach # "nil") =>
        (ret.err = ret.detach /\ ret.h = 0 /\ ~ret.claimCalled)

Enumerated == ret.op = "enumerate" /\ ret.err = "nil"

\* the filter of the last enumeration lets descriptor tree desc through
PassesFilter(desc) ==
    /\ ret.vendorID = 0 \/ desc.idVendor = ret.vendorID
    /\ ret.productID = 0 \/ desc.idProduct = ret.productID

\* endpoint end is a bulk or interrupt endpoint of direction IN (in = TRUE) or OUT
IsTransferEnd(end, in) ==
    /\ end.bmAttributes \in {TransferTypeBulk, TransferTypeInterrupt}
    /\ IsEndpointIn(end.bEndpointAddress) = in

HasPair(alt) ==
    /\ \E i \in 1..Len(alt.endpoint) : IsTransferEnd(alt.endpoint[i], TRUE)
    /\ \E j \in 1..Len(alt.endpoint) : IsTransferEnd(alt.endpoint[j], FALSE)

HasSameKindPair(alt) ==
    \E i, j \in 1..Len(alt.endpoint) :
        /\ IsTransferEnd(alt.endpoint[i], TRUE)
        /\ IsTransferEnd(alt.endpoint[j], FALSE)
        /\ alt.endpoint[i].bmAttributes = alt.endpoint[j].bmAttributes

\* the alt-settings of descriptor tree desc, as <<cfgnum, ifacenum, position>>
AltsOf(desc) ==
    UNION {UNION {{<<c, n, a>> : a \in 1..Len(desc.configs[c + 1][n + 1])} :
                  n \in 0..(Len(desc.configs[c + 1]) - 1)} :
           c \in 0..(Len(desc.configs) - 1)}

AltAt(desc, x) == desc.configs[x[1] + 1][x[2] + 1][x[3]]

\* the records of device dev are exactly one per alt-setting in due
RecordsExactly(dev, due) ==
    /\ Records(infos, dev) = Cardinality(due)
    /\ \A x \in due : \E i \in 1..Len(infos) :
          /\ infos[i].libusbDevice = dev
          /\ infos[i].Interface = x[2]
          /\ infos[i].InterfaceAlternate = AltAt(usb[dev], x).bAlternateSetting

\* device dev is attached, passes the filter and is not of class HID
Scanned(dev) ==
    dev \in attached /\ PassesFilter(usb[dev]) /\ usb[dev].bDeviceClass # ClassHID

PairAlts(dev) ==
    IF usb[dev].bDeviceClass = ClassHID THEN {}
    ELSE {x \in AltsOf(usb[dev]) : /\ AltAt(usb[dev], x).bInterfaceClass # ClassHID
                                  /\ HasPair(AltAt(usb[dev], x))}

\* C12: the records an enumeration returns carry the VendorID of a non-zero
\* vendor filter and the ProductID of a non-zero product filter; after a
\* successful enumeration an attached device with alt-settings to report has
\* records exactly when each non-zero filter equals its ID, so a zero filter
\* matches any value and two zero filters report every such alt-setting of
\* every attached device.
C12_FilterSelects ==
    ret.op = "enumerate" =>
        /\ \A i \in 1..Len(infos) :
              /\ ret.vendorID # 0 => infos[i].VendorID = ret.vendorID
              /\ ret.productID # 0 => infos[i].ProductID = ret.productID
        /\ ret.err = "nil" =>
              \A dev \in attached :
                 /\ PairAlts(dev) # {} =>
                       (Records(infos, dev) > 0 <=> PassesFilter(usb[dev]))
                 /\ ret.vendorID = 0 /\ ret.productID = 0 =>
                       Records(infos, dev) = Cardinality(PairAlts(dev))

\* an enumeration with a vendor filter returned the record of the device of
\* that vendor and none of the other vendor's device, which has one to report
C12_OtherVendorLeftOut ==
    /\ Enumerated
    /\ ret.vendorID = 2 /\ ret.productID = 0
    /\ usb[1].idVendor = 2 /\ Records(infos, 1) = 1
    /\ usb[2].idVendor = 1 /\ PairAlts(2) # {} /\ Records(infos, 2) = 0

\* the positions of the bulk or interrupt endpoints of one direction in ends
TransferEnds(ends, in) == {k \in 1..Len(ends) : IsTransferEnd(ends[k], in)}

\* the one of them that comes last in scan order
LastEnd(ends, in) ==
    ends[CHOOSE k \in TransferEnds(ends, in) : \A m \in TransferEnds(ends, in) : m <= k]

\* C13: every record an enumeration returns is the record of an alt-setting
\* with an endpoint pair and carries, for each direction, the address and the
\* kind of the last bulk or interrupt endpoint of that direction in scan
\* order; no alt-setting has two records.
C13_LastCandidateWins ==
    ret.op = "enumerate" =>
        /\ \A i \in 1..Len(infos) :
              \E x \in PairAlts(infos[i].libusbDevice) :
                 LET alt == AltAt(usb[infos[i].libusbDevice], x) IN
                 /\ infos[i].Interface = x[2]
                 /\ infos[i].InterfaceAlternate = alt.bAlternateSetting
                 /\ infos[i].libusbReader = LastEnd(alt.endpoint, TRUE).bEndpointAddress
                 /\ infos[i].readerTransferType = LastEnd(alt.endpoint, TRUE).bmAttributes
                 /\ infos[i].libusbWriter = LastEnd(alt.endpoint, FALSE).bEndpointAddress
                 /\ infos[i].writerTransferType = LastEnd(alt.endpoint, FALSE).bmAttributes
        /\ \A i, j \in 1..Len(infos) :
              /\ infos[i].libusbDevice = infos[j].libusbDevice
              /\ infos[i].Interface = infos[j].Interface
              /\ infos[i].InterfaceAlternate = infos[j].InterfaceAlternate
              => i = j

\* the generated alt-setting holds two IN endpoints of different kinds and
\* its single record carries the second one
C13_TwoReaders ==
    /\ Enumerated
    /\ Records(infos, 1) = 1
    /\ LET ends == usb[1].configs[1][1][1].endpoint IN
       /\ Len(ends) = 3
       /\ IsTransferEnd(ends[1], TRUE) /\ IsTransferEnd(ends[2], TRUE)
       /\ ends[1].bmAttributes # ends[2].bmAttributes
       /\ \E i \in 1..Len(infos) :
             /\ infos[i].libusbDevice = 1
             /\ infos[i].libusbReader = ends[2].bEndpointAddress
             /\ infos[i].readerTransferType = ends[2].bmAttributes

\* thread t is inside the native transfer call of a Read or Write
InTransfer(t) == pc[t].state = "transfer"

\* C14: on one handle at most one Read or Write is inside its native transfer
\* call at a time, and the thread that is inside holds the handle's lock.
C14_OneTransferPerHandle ==
    /\ \A t \in Threads : InTransfer(t) => handles[pc[t].h].lock = t
    /\ \A t1, t2 \in Threads :
          InTransfer(t1) /\ InTransfer(t2) /\ pc[t1].h = pc[t2].h => t1 = t2

\* two threads are inside native transfer calls on two different handles
C14_TwoHandlesInFlight ==
    \E t1, t2 \in Threads :
        InTransfer(t1) /\ InTransfer(t2) /\ pc[t1].h # pc[t2].h

\* thread t is inside getAllDevices, called directly or through open
InGetAllDevices(t) == pc[t].state \in {"entered", "init", "scan"}

\* C15: under any interleaving of concurrent enumerate and open calls
\* libusb_init succeeds at most once; a thread tests and initializes C.ctx
\* only while it holds the callers' mutex, and at most once per call; a call
\* whose libusb_init fails returns that error, leaving C.ctx nil.
C15_InitAtMostOnce ==
    /\ [](/\ inits <= 1
          /\ \A t \in Threads : InGetAllDevices(t) => mu = t /\ pc[t].inits <= 1)
    /\ [][\A t \in Threads :
             pc[t].state = "init" /\ pc'[t] # pc[t] /\ inits' = inits
             => /\ pc'[t] = Idle
                /\ calls' = calls + 1
                /\ ret'.err = "init"
                /\ ctx' = Nil]_vars

\* a thread is past the test of C.ctx without having called libusb_init,
\* because an earlier call has initialized the context
C15_SecondCallerSkipsInit ==
    \E t \in Threads : pc[t].state = "scan" /\ pc[t].inits = 0 /\ inits = 1

\* the transfer kind, endpoint address and timeout handle h records for the
\* direction of op
KindOf(h, op) ==
    IF op = "write" THEN handles[h].DeviceInfo.writerTransferType
                    ELSE handles[h].DeviceInfo.readerTransferType

AddressOf(h, op) ==
    IF op = "write" THEN handles[h].DeviceInfo.libusbWriter
                    ELSE handles[h].DeviceInfo.libusbReader

TimeoutOf(h, op) ==
    IF op = "write" THEN handles[h].writeTimeout ELSE handles[h].readTimeout

\* C16: a Write that reaches the native layer calls the interrupt transfer for
\* a recorded OUT kind of interrupt and the bulk transfer for bulk, a Read does
\* so on the IN kind, each with the endpoint address of its direction, the
\* handle's native handle and the handle's current timeout of its direction;
\* with a non-empty buffer a call whose recorded kind is bulk or interrupt
\* reaches the native layer, and a call whose recorded kind is neither
\* returns the unsupported-transfer error with 0 bytes and no native call.
C16_DispatchByKind ==
    [][/\ \A t \in Threads :
             pc[t] = Idle /\ pc'[t] # Idle
             => LET h == pc'[t].h
                    op == pc'[t].op
                IN  /\ pc'[t].state = "transfer"
                    /\ KindOf(h, op) = TransferTypeInterrupt
                          => pc'[t].call = "libusb_interrupt_transfer"
                    /\ KindOf(h, op) = TransferTypeBulk
                          => pc'[t].call = "libusb_bulk_transfer"
                    /\ KindOf(h, op) \in {TransferTypeInterrupt, TransferTypeBulk}
                    /\ pc'[t].endpoint = AddressOf(h, op)
                    /\ pc'[t].timeout = TimeoutOf(h, op)
                    /\ pc'[t].handle = handles[h].handle
       /\ Returns("read") \/ Returns("write")
             => LET kind == KindOf(ret'.h, ret'.op) IN
                /\ kind \notin {TransferTypeInterrupt, TransferTypeBulk}
                      <=> ret'.err = "unsupported"
                /\ ret'.err = "unsupported" => ret'.n = 0 /\ ~ret'.dispatched
                /\ kind \in {TransferTypeInterrupt, TransferTypeBulk} => ret'.length = 0]_vars

\* a Write on a handle whose OUT kind is isochronous has returned the
\* unsupported-transfer error while a Read of the same handle, whose IN kind
\* is interrupt, is inside the interrupt transfer
C16_UnsupportedBesideInterrupt ==
    /\ ret.op = "write" /\ ret.err = "unsupported"
    /\ KindOf(ret.h, "write") = TransferTypeIsochronous
    /\ \E t \in Threads :
          /\ InTransfer(t) /\ pc[t].h = ret.h /\ pc[t].op = "read"
          /\ pc[t].call = "libusb_interrupt_transfer"

\* C17: a Read or Write with a zero-length buffer on an open handle reaches the
\* native transfer call and returns normally; it never aborts before the
\* native call.
C17_EmptyBufferForwarded ==
    /\ ret.op \in {"read", "write"}
    /\ ret.length = 0
    /\ ret.handle # Nil
    => ret.dispatched /\ ret.err # "panic"

\* C18: an enumerate call that obtained a native device list has passed that
\* list to libusb_free_device_list when it returns, with or without an error.
C18_ListReleased ==
    ret.op = "enumerate" /\ ret.list # Nil => ret.freed = ret.list

\* C19: SetReadTimeout and SetWriteTimeout store the timeout only while no
\* thread holds the handle's lock.
C19_SettersTakeLock ==
    [][Returns("SetReadTimeout") \/ Returns("SetWriteTimeout")
          => handles[ret'.h].lock = 0]_vars

\* C20: a handle nothing has been called on has both timeouts 0; a transfer
\* passes the timeout of its direction stored on the handle when it begins
\* and keeps it until it returns, whatever is stored meanwhile; SetReadTimeout
\* stores the read timeout and SetWriteTimeout the write timeout of one
\* handle and change no other timeout.
C20_TimeoutAtBegin ==
    /\ \A h \in HandleIds : handles[h].readTimeout = 0 /\ handles[h].writeTimeout = 0
    /\ [][/\ \A t \in Threads :
                /\ pc[t] = Idle /\ pc'[t] # Idle
                      => pc'[t].timeout = TimeoutOf(pc'[t].h, pc'[t].op)
                /\ pc[t] # Idle /\ pc'[t] # Idle => pc'[t].timeout = pc[t].timeout
          /\ Returns("SetReadTimeout")
                => /\ handles'[ret'.h].readTimeout = ret'.timeout
                   /\ handles'[ret'.h].writeTimeout = handles[ret'.h].writeTimeout
                   /\ \A h \in HandleIds \ {ret'.h} : handles'[h] = handles[h]
          /\ Returns("SetWriteTimeout")
                => /\ handles'[ret'.h].writeTimeout = ret'.timeout
                   /\ handles'[ret'.h].readTimeout = handles[ret'.h].readTimeout
                   /\ \A h \in HandleIds \ {ret'.h} : handles'[h] = handles[h]]_vars

\* SetReadTimeout has stored 1 on a handle while a Read that began with the
\* timeout 0 is inside its native call, and the call still carries 0
C20_SetDuringRead ==
    /\ ret.op = "SetReadTimeout" /\ ret.timeout = 1
    /\ \E t \in Threads :
          /\ InTransfer(t) /\ pc[t].h = ret.h /\ pc[t].op = "read"
          /\ pc[t].timeout = 0
          /\ handles[ret.h].readTimeout = 1

\* C21: the Path of every record an enumeration returns is built from the
\* vendor ID, the product ID and the port number of the record's device,
\* whatever filter was passed.
C21_PathOfDevice ==
    ret.op = "enumerate" =>
        \A i \in 1..Len(infos) :
            LET desc == usb[infos[i].libusbDevice] IN
            infos[i].Path = <<desc.idVendor, desc.idProduct, desc.port>>

\* bits 0-1 of an attribute byte: bmAttributes & transferTypeMask
MaskedKind(attr) == attr % (transferTypeMask + 1)

\* endpoint end is, by bits 0-1 of its attribute byte, a bulk or interrupt
\* endpoint, and by bit 7 of its address of direction IN (in = TRUE) or OUT
IsMaskedTransferEnd(end, in) ==
    /\ MaskedKind(end.bmAttributes) \in {TransferTypeBulk, TransferTypeInterrupt}
    /\ ((end.bEndpointAddress \div endpointDirectionMask) % 2 = 1) = in

HasMaskedPair(alt) ==
    /\ \E i \in 1..Len(alt.endpoint) : IsMaskedTransferEnd(alt.endpoint[i], TRUE)
    /\ \E j \in 1..Len(alt.endpoint) : IsMaskedTransferEnd(alt.endpoint[j], FALSE)

\* C22: an endpoint is a candidate when bits 0-1 of its attribute byte denote
\* bulk or interrupt, whatever its bits 2-5, and its direction is bit 7 of
\* its address: a successful enumeration has a record for exactly the
\* alt-settings of scanned devices that hold such an IN and such an OUT
\* endpoint behind a non-HID interface, and the kinds it records are two-bit
\* values.
C22_MaskedKinds ==
    Enumerated =>
        /\ \A dev \in Devices :
              RecordsExactly(dev, IF Scanned(dev)
                                  THEN {x \in AltsOf(usb[dev]) :
                                          /\ AltAt(usb[dev], x).bInterfaceClass # ClassHID
                                          /\ HasMaskedPair(AltAt(usb[dev], x))}
                                  ELSE {})
        /\ \A i \in 1..Len(infos) :
              /\ infos[i].readerTransferType = MaskedKind(infos[i].readerTransferType)
              /\ infos[i].writerTransferType = MaskedKind(infos[i].writerTransferType)

\* thread t holds the lock of some handle
HoldsLock(t) == \E h \in HandleIds : handles[h].lock = t

\* C23: while a native transfer is in flight on a handle its native handle is
\* open and its interface claimed, and no Close of that handle runs; the lock
\* of a handle is held only by a thread inside a native transfer on it, so
\* every return of Read, Write and Close has released it; and when the native
\* calls return, a thread that holds a lock gives it up (unless the process
\* has died in the native layer).
C23_CloseExcludesTransfer ==
    /\ [](\A t \in Threads :
            InTransfer(t) /\ pc[t].handle # Nil
            => native[pc[t].handle].open /\ native[pc[t].handle].claimed)
    /\ [](\A h \in HandleIds :
            handles[h].lock # 0
            => InTransfer(handles[h].lock) /\ pc[handles[h].lock].h = h)
    /\ [][Returns("close")
            => \A t \in Threads : ~(InTransfer(t) /\ pc[t].h = ret'.h)]_vars
    /\ \A t \in Threads : HoldsLock(t) ~> (~HoldsLock(t) \/ ~alive)

\* a Read or Write is inside its native call on an open handle while the
\* other thread is free to call Close on that handle, which has to wait
C23_CloseHasToWait ==
    \E t, u \in Threads :
        /\ t # u
        /\ InTransfer(t) /\ pc[t].handle # Nil /\ native[pc[t].handle].open
        /\ handles[pc[t].h].lock = t
        /\ pc[u] = Idle /\ CanCall

=============================================================================
